---------------------------- MODULE Spec2Model ----------------------------
(***************************************************************************)
(* screen-tools: a file is moved across an air gap as a slideshow of QR    *)
(* codes.  The sender (src/client/src/main.rs) base64-encodes the file,    *)
(* slices the text into chunks of CHUNK_SIZE characters and writes one QR  *)
(* image per chunk.  The receiver (src/server/src/main.rs) polls the       *)
(* screen, keeps every decoded payload whose 64-bit hash it has not seen,  *)
(* and, once no new payload has arrived for IDLE_TIMEOUT_SECONDS, joins    *)
(* the kept payloads, base64-decodes them and writes the result.           *)
(*                                                                         *)
(* Strings are sequences of character codes (ASCII), byte buffers are      *)
(* sequences of numbers 0..255, durations are milliseconds.                *)
(***************************************************************************)
EXTENDS Integers, Sequences, FiniteSets, TLC

(***************************************************************************)
(* Program constants.                                                      *)
(***************************************************************************)
CHUNK_SIZE == 2000
SLIDE_INTERVAL_MS == 1000
CAPTURE_INTERVAL_MS == 50
IDLE_TIMEOUT_SECONDS == 3

(***************************************************************************)
(* Bounds of the model.                                                    *)
(*   ChunkScale  the model slices base64 text into pieces of               *)
(*               (CHUNK_SIZE \div 4) \div ChunkScale groups of 4           *)
(*               characters, so that files of a few bytes already give     *)
(*               several chunks;                                           *)
(*   MaxFileLen  longest source file whose every content is enumerated;    *)
(*   MaxLongLen  longest source file of the patterned (longer) files;      *)
(*   HashSpace   number of fingerprints hash_string can return (2^64 in    *)
(*               the program, where the payload strings are far more       *)
(*               numerous than the fingerprints);                          *)
(*   MaxCapture  longest time one capture_and_detect_qr call may take, in  *)
(*               units of CAPTURE_INTERVAL_MS;                             *)
(*   ElapsedCap  how far past the idle timeout an elapsed time is told     *)
(*               apart, in units of CAPTURE_INTERVAL_MS;                   *)
(*   MaxChunks   longest chunk list handed to restore_file on its own;     *)
(*   LiveCapture time a capture takes in the runs checked for liveness,    *)
(*               in units of CAPTURE_INTERVAL_MS;                          *)
(*   LoopCountMod  loop_count is kept modulo this number (it only drives a *)
(*               status line, every 25th iteration, which is not           *)
(*               modelled; in the program it is an i32 that grows by one   *)
(*               per iteration);                                           *)
(*   MaxRun      most chunks of zero bytes at the start of a file that is  *)
(*               shown to the receiver.                                    *)
(***************************************************************************)
ChunkScale == 250
MaxFileLen == 4
MaxLongLen == 14
HashSpace == 3
MaxCapture == 1
ElapsedCap == 2
MaxChunks == 3
LiveCapture == 9
LoopCountMod == 2
MaxRun == 4

\* CHUNK_SIZE is a whole number of base64 groups of 4 characters, and so is
\* the chunk size of the model: the groups of a chunk are scaled down.
ChunkSize == 4 * ((CHUNK_SIZE \div 4) \div ChunkScale)

Min(a, b) == IF a < b THEN a ELSE b

(***************************************************************************)
(* Characters.                                                             *)
(***************************************************************************)
PAD == 61
WhiteSpace == {9, 10, 11, 12, 13, 32}

\* The standard base64 alphabet: the character of a 6-bit value.
B64Char(v) ==
  IF v < 26 THEN 65 + v
  ELSE IF v < 52 THEN 97 + (v - 26)
  ELSE IF v < 62 THEN 48 + (v - 52)
  ELSE IF v = 62 THEN 43
  ELSE 47

\* The 6-bit value of a character of the alphabet, -1 for any other character.
B64Val(c) ==
  IF c >= 65 /\ c <= 90 THEN c - 65
  ELSE IF c >= 97 /\ c <= 122 THEN c - 97 + 26
  ELSE IF c >= 48 /\ c <= 57 THEN c - 48 + 52
  ELSE IF c = 43 THEN 62
  ELSE IF c = 47 THEN 63
  ELSE -1

(***************************************************************************)
(* Sender: to_base64 and split_data.                                       *)
(***************************************************************************)
ByteAt(data, i) == IF i <= Len(data) THEN data[i] ELSE 0

\* The k-th (0..3) 6-bit value of the 3-byte group whose first byte is data[g].
Sextet(data, g, k) ==
  LET v == ByteAt(data, g) * 65536 + ByteAt(data, g + 1) * 256 + ByteAt(data, g + 2)
  IN  CASE k = 0 -> v \div 262144
        [] k = 1 -> (v \div 4096) % 64
        [] k = 2 -> (v \div 64) % 64
        [] OTHER -> v % 64

\* STANDARD.encode: 4 characters per 3-byte group, the last group padded with '='.
to_base64(data) ==
  LET n == Len(data)
  IN  [i \in 1..(4 * ((n + 2) \div 3)) |->
         LET g == 3 * ((i - 1) \div 4) + 1
             k == (i - 1) % 4
         IN  IF (k = 2 /\ g + 1 > n) \/ (k = 3 /\ g + 2 > n)
             THEN PAD
             ELSE B64Char(Sextet(data, g, k))]

\* String::from_utf8_lossy on a slice of the text's bytes: ASCII bytes are kept,
\* a byte that is no character of its own becomes U+FFFD.
from_utf8_lossy(bytes) ==
  [i \in 1..Len(bytes) |-> IF bytes[i] < 128 THEN bytes[i] ELSE 65533]

\* split_data as chunks_exact would slice: a short last piece is dropped.
split_data_exact(data, chunk_size) ==
  [j \in 1..(Len(data) \div chunk_size) |->
     SubSeq(data, (j - 1) * chunk_size + 1, j * chunk_size)]

\* data.as_bytes().chunks(chunk_size): consecutive slices of chunk_size bytes,
\* the last one shorter when the length is no multiple; none for empty data.
split_data(data, chunk_size) ==
  LET L == Len(data)
  IN  [j \in 1..((L + chunk_size - 1) \div chunk_size) |->
         from_utf8_lossy(SubSeq(data, (j - 1) * chunk_size + 1, Min(j * chunk_size, L)))]

(***************************************************************************)
(* Receiver: join, trim and STANDARD.decode as used by restore_file.       *)
(***************************************************************************)
\* join as join("\n") would: a line feed between the strings.
RECURSIVE join_lines(_)
join_lines(strs) ==
  IF strs = << >> THEN << >>
  ELSE IF Len(strs) = 1 THEN Head(strs)
  ELSE Head(strs) \o <<10>> \o join_lines(Tail(strs))

\* chunks.join(""): the strings one after the other, nothing between them.
RECURSIVE join(_)
join(strs) == IF strs = << >> THEN << >> ELSE Head(strs) \o join(Tail(strs))

RECURSIVE trim_start(_)
trim_start(s) ==
  IF s # << >> /\ Head(s) \in WhiteSpace THEN trim_start(Tail(s)) ELSE s

RECURSIVE trim_end(_)
trim_end(s) ==
  IF s # << >> /\ s[Len(s)] \in WhiteSpace
  THEN trim_end(SubSeq(s, 1, Len(s) - 1))
  ELSE s

trim(s) == trim_end(trim_start(s))

\* Number of '=' characters at the end of s, at most 2 looked at.
PadCount(s) ==
  IF Len(s) >= 1 /\ s[Len(s)] = PAD
  THEN IF Len(s) >= 2 /\ s[Len(s) - 1] = PAD THEN 2 ELSE 1
  ELSE 0

\* STANDARD.decode accepts s when: its length is a multiple of 4 (canonical
\* padding is required), every character before the padding is of the
\* alphabet, the padding is "", "=" or "==" at the very end, and the bits of
\* the last character that encode no byte are zero.
decode_ok(s) ==
  LET p == PadCount(s)
      m == Len(s) - p
  IN  /\ Len(s) % 4 = 0
      /\ \A i \in 1..m : B64Val(s[i]) >= 0
      /\ p = 1 => B64Val(s[m]) % 4 = 0
      /\ p = 2 => B64Val(s[m]) % 16 = 0

\* The bytes STANDARD.decode returns for an accepted s.
decode_bytes(s) ==
  LET p == PadCount(s)
      n == 3 * (Len(s) \div 4) - p
      val(i) == IF i <= Len(s) - p THEN B64Val(s[i]) ELSE 0
  IN  [j \in 1..n |->
         LET q == 4 * ((j - 1) \div 3) + 1
             v == val(q) * 262144 + val(q + 1) * 4096 + val(q + 2) * 64 + val(q + 3)
         IN  CASE (j - 1) % 3 = 0 -> v \div 65536
               [] (j - 1) % 3 = 1 -> (v \div 256) % 256
               [] OTHER -> v % 256]

(***************************************************************************)
(* State.                                                                  *)
(***************************************************************************)
VARIABLES
  file,             \* sender: content of the source file of the last encode run
  client_result,    \* sender: "none" before a run, then "ok" or the error
  chunks,           \* sender: the chunks of the last encode run, production order
  dirs_created,     \* sender: qr_output/ and web/ exist
  qr_output,        \* sender: qr_001.svg, qr_002.svg, ... as the payload each encodes
  pc,               \* receiver: "start", "loop", "finalizing" or "done"
  loop_count,       \* receiver: loop_count modulo LoopCountMod
  received_chunks,  \* receiver: Vec<String> of accepted payloads
  seen_hashes,      \* receiver: HashSet<u64> of their fingerprints
  elapsed,          \* receiver: last_data_time.elapsed() as the last timeout check read it
  result,           \* receiver: "none" while running, then "ok" or the error reported
  file_created,     \* receiver: File::create of the output file has succeeded
  output_file,      \* receiver: bytes in the output file
  hasher,           \* the fingerprints hash_string has returned so far, by string
  submitted,        \* history: the payloads capture_and_detect_qr has returned
  resubmitted,      \* history: those it has returned on more than one tick
  first_decoded,    \* history: the payloads it has returned, in the order of
                    \* their first return
  restore_arg,      \* history: << >> or <<cs>>, cs the chunks restore_file was called with
  slide,            \* display: number of the image on the screen, 0 when none
  slide_age,        \* display: how long it has been there at the last capture
  decoded_slides    \* history: the numbers of the images decoded, in the order of
                    \* their first decoding

vars == << file, client_result, chunks, dirs_created, qr_output, pc, loop_count,
           received_chunks,
           seen_hashes, elapsed, result, file_created, output_file, hasher, submitted,
           resubmitted, first_decoded, restore_arg, slide, slide_age, decoded_slides >>

senderVars == << file, client_result, chunks, dirs_created, qr_output >>
receiverVars == << pc, loop_count, received_chunks, seen_hashes, elapsed, result, file_created,
                   output_file, hasher, submitted, resubmitted, first_decoded,
                   restore_arg >>
displayVars == << slide, slide_age, decoded_slides >>

IdleTimeoutMs == IDLE_TIMEOUT_SECONDS * 1000
ElapsedMax == IdleTimeoutMs + ElapsedCap * CAPTURE_INTERVAL_MS
Fingerprints == 0..(HashSpace - 1)

Init ==
  /\ file = << >>
  /\ client_result = "none"
  /\ chunks = << >>
  /\ dirs_created = FALSE
  /\ qr_output = << >>
  /\ pc = "start"
  /\ loop_count = 0
  /\ received_chunks = << >>
  /\ seen_hashes = {}
  /\ elapsed = 0
  /\ result = "none"
  /\ file_created = FALSE
  /\ output_file = << >>
  /\ hasher = << >>
  /\ submitted = {}
  /\ resubmitted = {}
  /\ first_decoded = << >>
  /\ restore_arg = << >>
  /\ slide = 0
  /\ slide_age = 0
  /\ decoded_slides = << >>

(***************************************************************************)
(* Sender: one run of `client <path>`.                                     *)
(***************************************************************************)
\* read_file without the test of the file size.
read_file_any_size(content, readable) ==
  IF ~readable THEN "err_read" ELSE "ok"

\* read_file: an error when the file cannot be opened or read or is empty.
read_file(content, readable) ==
  IF ~readable THEN "err_read"
  ELSE IF Len(content) = 0 THEN "err_empty"
  ELSE "ok"

\* generate_qr_svgs: qr_<idx+1>.svg is created or overwritten for every chunk;
\* files of an earlier run with a higher number stay as they are.
generate_qr_svgs(cs, dir) ==
  [i \in 1..(IF Len(cs) > Len(dir) THEN Len(cs) ELSE Len(dir)) |->
     IF i <= Len(cs) THEN cs[i] ELSE dir[i]]

generate_svg_files(content, readable) ==
  IF read_file(content, readable) # "ok"
  THEN /\ client_result' = read_file(content, readable)
       /\ UNCHANGED << file, chunks, dirs_created, qr_output >>
  ELSE LET base64_data == to_base64(content)
           cs == split_data(base64_data, ChunkSize)
       IN  /\ file' = content
           /\ chunks' = cs
           /\ dirs_created' = TRUE
           /\ qr_output' = generate_qr_svgs(cs, qr_output)
           /\ client_result' = "ok"

(***************************************************************************)
(* Receiver.                                                               *)
(***************************************************************************)
\* hash_string with a hasher seeded anew on every call: any fingerprint, also
\* for a string hashed before.
hash_string_reseeded(s, h) == h \in Fingerprints

\* hash_string: DefaultHasher over the string, a u64.  The model knows of it
\* that equal strings get equal fingerprints and that there are fewer
\* fingerprints than strings: h is a fingerprint hash_string may return for
\* s, the one returned before if s was hashed before.
hash_string(s, h) ==
  IF s \in DOMAIN hasher THEN h = hasher[s] ELSE h \in Fingerprints

\* The dedup test left out: every decoded payload counts as new.
is_new_always(h) == TRUE

\* !seen_hashes.contains(&data_hash)
is_new(h) == h \notin seen_hashes

\* The timeout test with the timeout taken for minutes.
timed_out_minutes(rc, el) == rc # << >> /\ el > IdleTimeoutMs * 60

\* The timeout test without the test for received chunks.
timed_out_idle(rc, el) == el > IdleTimeoutMs

\* The timeout test with >= for >.
timed_out_at(rc, el) == rc # << >> /\ el >= IdleTimeoutMs

\* !received_chunks.is_empty() && last_data_time.elapsed() > IDLE_TIMEOUT_SECONDS,
\* for the chunks rc and the elapsed time el the check reads.
timed_out(rc, el) == rc # << >> /\ el > IdleTimeoutMs

\* restore_file creating the output file before it decodes.
restore_file_create_first(cs, created, written) ==
  LET text == trim(join(cs))
  IN  IF ~created
      THEN [result |-> "err_create", file_created |-> FALSE, output_file |-> << >>]
      ELSE IF ~decode_ok(text)
      THEN [result |-> "err_base64", file_created |-> TRUE, output_file |-> << >>]
      ELSE IF written < Len(decode_bytes(text))
      THEN [result |-> "err_write", file_created |-> TRUE,
            output_file |-> SubSeq(decode_bytes(text), 1, written)]
      ELSE [result |-> "ok", file_created |-> TRUE, output_file |-> decode_bytes(text)]

\* restore_file: join, trim, decode, then create and write the output file.
\* created: File::create succeeds; written: bytes write_all gets out.
restore_file(cs, created, written) ==
  LET combined == join(cs)
      text == trim(combined)
  IN  IF ~decode_ok(text)
      THEN [result |-> "err_base64", file_created |-> FALSE, output_file |-> << >>]
      ELSE LET file_data == decode_bytes(text)
           IN  IF ~created
               THEN [result |-> "err_create", file_created |-> FALSE,
                     output_file |-> << >>]
               ELSE IF written < Len(file_data)
               THEN [result |-> "err_write", file_created |-> TRUE,
                     output_file |-> SubSeq(file_data, 1, written)]
               ELSE [result |-> "ok", file_created |-> TRUE, output_file |-> file_data]

\* main_with_error up to the loop: Screen::all() and the first screen.
Startup(screen_ok) ==
  /\ pc = "start"
  /\ IF screen_ok
     THEN pc' = "loop" /\ result' = result
     ELSE pc' = "done" /\ result' = "err_screen"
  /\ UNCHANGED << loop_count, received_chunks, seen_hashes, elapsed, file_created,
                  output_file, hasher, submitted, resubmitted, first_decoded,
                  restore_arg >>

\* capture_and_detect_qr: what the call returns, from how its steps went.
\* captured: screen.capture succeeds; converted: GrayImage::from_raw gives an
\* image; grids: number of grids detect_grids finds; decoded: the first grid
\* decodes.  A failed decode is printed and the call returns Ok(None).
capture_and_detect_qr(captured, converted, grids, decoded) ==
  IF ~captured THEN "err"
  ELSE IF ~converted THEN "err"
  ELSE IF grids > 0 /\ decoded THEN "some"
  ELSE "none"

\* An iteration in which an Err of capture_and_detect_qr is passed on with ?
\* and ends the run.
Tick_fatal(outcome, data, h, dt) ==
  /\ pc = "loop"
  /\ loop_count' = (loop_count + 1) % LoopCountMod
  /\ outcome = "some" => hash_string(data, h)
  /\ LET fresh == outcome = "some" /\ is_new(h)
         rc == IF fresh THEN Append(received_chunks, data) ELSE received_chunks
         el == IF fresh THEN 0 ELSE Min(elapsed + dt, ElapsedMax)
     IN  /\ seen_hashes' = IF fresh THEN seen_hashes \cup {h} ELSE seen_hashes
         /\ received_chunks' = rc
         /\ elapsed' = el
         /\ pc' = IF outcome = "err" THEN "done"
                  ELSE IF timed_out(rc, el) THEN "finalizing" ELSE "loop"
  /\ result' = IF outcome = "err" THEN "err_capture" ELSE result
  /\ hasher' = IF outcome = "some" /\ data \notin DOMAIN hasher
               THEN [s \in DOMAIN hasher \cup {data} |->
                       IF s = data THEN h ELSE hasher[s]]
               ELSE hasher
  /\ submitted' = IF outcome = "some" THEN submitted \cup {data} ELSE submitted
  /\ resubmitted' = IF outcome = "some" /\ data \in submitted
                    THEN resubmitted \cup {data}
                    ELSE resubmitted
  /\ first_decoded' = IF outcome = "some" /\ data \notin submitted
                      THEN Append(first_decoded, data)
                      ELSE first_decoded
  /\ UNCHANGED << file_created, output_file, restore_arg >>

\* An iteration that sets last_data_time for every decoded payload, new or not.
Tick_touch(outcome, data, h, dt) ==
  /\ pc = "loop"
  /\ loop_count' = (loop_count + 1) % LoopCountMod
  /\ outcome = "some" => hash_string(data, h)
  /\ LET fresh == outcome = "some" /\ is_new(h)
         rc == IF fresh THEN Append(received_chunks, data) ELSE received_chunks
         el == IF outcome = "some" THEN 0 ELSE Min(elapsed + dt, ElapsedMax)
     IN  /\ seen_hashes' = IF fresh THEN seen_hashes \cup {h} ELSE seen_hashes
         /\ received_chunks' = rc
         /\ elapsed' = el
         /\ pc' = IF timed_out(rc, el) THEN "finalizing" ELSE "loop"
  /\ hasher' = IF outcome = "some" /\ data \notin DOMAIN hasher
               THEN [s \in DOMAIN hasher \cup {data} |->
                       IF s = data THEN h ELSE hasher[s]]
               ELSE hasher
  /\ submitted' = IF outcome = "some" THEN submitted \cup {data} ELSE submitted
  /\ resubmitted' = IF outcome = "some" /\ data \in submitted
                    THEN resubmitted \cup {data}
                    ELSE resubmitted
  /\ first_decoded' = IF outcome = "some" /\ data \notin submitted
                      THEN Append(first_decoded, data)
                      ELSE first_decoded
  /\ UNCHANGED << result, file_created, output_file, restore_arg >>

\* An iteration that puts a new payload at the front of received_chunks.
Tick_front(outcome, data, h, dt) ==
  /\ pc = "loop"
  /\ loop_count' = (loop_count + 1) % LoopCountMod
  /\ outcome = "some" => hash_string(data, h)
  /\ LET fresh == outcome = "some" /\ is_new(h)
         rc == IF fresh THEN << data >> \o received_chunks ELSE received_chunks
         el == IF fresh THEN 0 ELSE Min(elapsed + dt, ElapsedMax)
     IN  /\ seen_hashes' = IF fresh THEN seen_hashes \cup {h} ELSE seen_hashes
         /\ received_chunks' = rc
         /\ elapsed' = el
         /\ pc' = IF timed_out(rc, el) THEN "finalizing" ELSE "loop"
  /\ hasher' = IF outcome = "some" /\ data \notin DOMAIN hasher
               THEN [s \in DOMAIN hasher \cup {data} |->
                       IF s = data THEN h ELSE hasher[s]]
               ELSE hasher
  /\ submitted' = IF outcome = "some" THEN submitted \cup {data} ELSE submitted
  /\ resubmitted' = IF outcome = "some" /\ data \in submitted
                    THEN resubmitted \cup {data}
                    ELSE resubmitted
  /\ first_decoded' = IF outcome = "some" /\ data \notin submitted
                      THEN Append(first_decoded, data)
                      ELSE first_decoded
  /\ UNCHANGED << result, file_created, output_file, restore_arg >>

\* One iteration of the loop.  outcome is what capture_and_detect_qr returned
\* ("some" with data, "none", "err"), h the fingerprint of data, dt the time
\* since the previous timeout check (the sleep plus the capture).
Tick(outcome, data, h, dt) ==
  /\ pc = "loop"
  /\ loop_count' = (loop_count + 1) % LoopCountMod
  /\ outcome = "some" => hash_string(data, h)
  /\ LET fresh == outcome = "some" /\ is_new(h)
         rc == IF fresh THEN Append(received_chunks, data) ELSE received_chunks
         el == IF fresh THEN 0 ELSE Min(elapsed + dt, ElapsedMax)
     IN  /\ seen_hashes' = IF fresh THEN seen_hashes \cup {h} ELSE seen_hashes
         /\ received_chunks' = rc
         /\ elapsed' = el
         /\ pc' = IF timed_out(rc, el) THEN "finalizing" ELSE "loop"
  /\ hasher' = IF outcome = "some" /\ data \notin DOMAIN hasher
               THEN [s \in DOMAIN hasher \cup {data} |->
                       IF s = data THEN h ELSE hasher[s]]
               ELSE hasher
  /\ submitted' = IF outcome = "some" THEN submitted \cup {data} ELSE submitted
  /\ resubmitted' = IF outcome = "some" /\ data \in submitted
                    THEN resubmitted \cup {data}
                    ELSE resubmitted
  /\ first_decoded' = IF outcome = "some" /\ data \notin submitted
                      THEN Append(first_decoded, data)
                      ELSE first_decoded
  /\ UNCHANGED << result, file_created, output_file, restore_arg >>

\* The code after the loop with a count of the chunks: fewer accepted chunks
\* than the sender made are reported and not reassembled.
Finalize_counted(created, written) ==
  /\ pc = "finalizing"
  /\ pc' = "done"
  /\ IF Len(received_chunks) < Len(chunks)
     THEN /\ result' = "err_incomplete"
          /\ UNCHANGED << file_created, output_file, restore_arg >>
     ELSE LET r == restore_file(received_chunks, created, written)
          IN  /\ result' = r.result
              /\ file_created' = r.file_created
              /\ output_file' = r.output_file
              /\ restore_arg' = << received_chunks >>
  /\ UNCHANGED << loop_count, received_chunks, seen_hashes, elapsed, hasher,
                  submitted, resubmitted, first_decoded >>

\* The code after the loop without its empty guard.
Finalize_unguarded(created, written) ==
  /\ pc = "finalizing"
  /\ pc' = "done"
  /\ LET r == restore_file(received_chunks, created, written)
     IN  /\ result' = r.result
         /\ file_created' = r.file_created
         /\ output_file' = r.output_file
         /\ restore_arg' = << received_chunks >>
  /\ UNCHANGED << loop_count, received_chunks, seen_hashes, elapsed, hasher,
                  submitted, resubmitted, first_decoded >>

\* main_with_error after the loop: the empty guard, then restore_file.
Finalize(created, written) ==
  /\ pc = "finalizing"
  /\ pc' = "done"
  /\ IF received_chunks = << >>
     THEN /\ result' = "err_no_data"
          /\ UNCHANGED << file_created, output_file, restore_arg >>
     ELSE LET r == restore_file(received_chunks, created, written)
          IN  /\ result' = r.result
              /\ file_created' = r.file_created
              /\ output_file' = r.output_file
              /\ restore_arg' = << received_chunks >>
  /\ UNCHANGED << loop_count, received_chunks, seen_hashes, elapsed, hasher,
                  submitted, resubmitted, first_decoded >>

\* restore_file called on its own with the chunks cs.
CallRestoreFile(cs, created, written) ==
  LET r == restore_file(cs, created, written)
  IN  /\ result' = r.result
      /\ file_created' = r.file_created
      /\ output_file' = r.output_file
      /\ restore_arg' = << cs >>
      /\ UNCHANGED << pc, loop_count, received_chunks, seen_hashes, elapsed, hasher,
                      submitted, resubmitted, first_decoded >>

(***************************************************************************)
(* Inputs.                                                                 *)
(***************************************************************************)
Bytes == {0, 77, 251, 255}
Steps == {0, 1, 85}

RECURSIVE SeqsUpTo(_, _)
SeqsUpTo(S, n) ==
  IF n = 0 THEN {<< >>}
  ELSE LET shorter == SeqsUpTo(S, n - 1)
       IN  shorter \cup {Append(q, x) : q \in {t \in shorter : Len(t) = n - 1}, x \in S}

\* Every file of at most MaxFileLen bytes over Bytes (the empty file too).
SmallFiles == SeqsUpTo(Bytes, MaxFileLen)

\* Longer files: a constant byte, a ramp, or a ramp of step 85.
LongFiles ==
  {[i \in 1..n |-> (a + d * (i - 1)) % 256] :
     n \in (MaxFileLen + 1)..MaxLongLen, a \in Bytes, d \in Steps}

CodecFiles == SmallFiles \cup LongFiles

\* How many bytes write_all may get out before it fails or finishes.
WriteCounts(cs) ==
  LET text == trim(join(cs))
  IN  0..(IF decode_ok(text) THEN Len(decode_bytes(text)) ELSE 0)

\* Payloads a decoded QR code may carry when anything may be on the screen:
\* "AAAA", "/w==" and " ".
Payloads == {<<65, 65, 65, 65>>, <<47, 119, 61, 61>>, <<32>>}

\* Time from one timeout check to the next: the sleep and a capture of c intervals.
Dt(c) == CAPTURE_INTERVAL_MS + c * CAPTURE_INTERVAL_MS

(***************************************************************************)
(* SpecCodec: the sender encodes one file and restore_file is applied to   *)
(* its chunks in production order, none lost, none repeated.               *)
(***************************************************************************)
EncodeFile ==
  /\ client_result = "none"
  /\ \E f \in CodecFiles, readable \in BOOLEAN : generate_svg_files(f, readable)
  /\ UNCHANGED << receiverVars, displayVars >>

ReassembleInOrder ==
  /\ client_result = "ok"
  /\ restore_arg = << >>
  /\ \E created \in BOOLEAN, written \in WriteCounts(chunks) :
        CallRestoreFile(chunks, created, written)
  /\ UNCHANGED << senderVars, displayVars >>

CodecNext == EncodeFile \/ ReassembleInOrder

SpecCodec == Init /\ [][CodecNext]_vars

(***************************************************************************)
(* Spec: the receiver, with any stream of per-tick outcomes.               *)
(***************************************************************************)
Start ==
  /\ \E screen_ok \in BOOLEAN : Startup(screen_ok)
  /\ UNCHANGED << senderVars, displayVars >>

\* An iteration whose capture takes c \in C intervals and returns Ok(Some(data))
\* with data \in P, Ok(None), or Err.
DecodedOf(P, C) ==
  /\ \E data \in P, h \in Fingerprints, c \in C : Tick("some", data, h, Dt(c))
  /\ UNCHANGED << senderVars, displayVars >>

NoSymbolOf(C) ==
  /\ \E c \in C : Tick("none", << >>, 0, Dt(c))
  /\ UNCHANGED << senderVars, displayVars >>

CaptureErrorOf(C) ==
  /\ \E c \in C : Tick("err", << >>, 0, Dt(c))
  /\ UNCHANGED << senderVars, displayVars >>

Decoded == DecodedOf(Payloads, 0..MaxCapture)

NoSymbol == NoSymbolOf(0..MaxCapture)

CaptureError == CaptureErrorOf(0..MaxCapture)

Reassemble ==
  /\ \E created \in BOOLEAN, written \in WriteCounts(received_chunks) :
        Finalize(created, written)
  /\ UNCHANGED << senderVars, displayVars >>

Next == Start \/ Decoded \/ NoSymbol \/ CaptureError \/ Reassemble

Spec == Init /\ [][Next]_vars

(***************************************************************************)
(* SpecLive: the receiver with the loop scheduled fairly.  Every call in    *)
(* an iteration returns and the sleep ends, so the iteration that is due   *)
(* is eventually taken, whatever it decodes; the code after the loop runs  *)
(* once the loop is left.  Captures take LiveCapture intervals, and the    *)
(* screen shows "AAAA", "/w==" or nothing.                                 *)
(***************************************************************************)
LivePayloads == {<<65, 65, 65, 65>>, <<47, 119, 61, 61>>}

LiveDecoded == DecodedOf(LivePayloads, {LiveCapture})

LiveNoSymbol == NoSymbolOf({LiveCapture})

LiveCaptureError == CaptureErrorOf({LiveCapture})

LoopIteration == LiveDecoded \/ LiveNoSymbol \/ LiveCaptureError

LiveNext == Start \/ LiveDecoded \/ LiveNoSymbol \/ LiveCaptureError \/ Reassemble

SpecLive ==
  /\ Init
  /\ [][LiveNext]_vars
  /\ WF_vars(Start)
  /\ WF_vars(LoopIteration)
  /\ WF_vars(Reassemble)

(***************************************************************************)
(* SpecRestore: the code after the loop, and restore_file on its own, run  *)
(* on any list of at most MaxChunks payloads, the empty list too.          *)
(***************************************************************************)
ChunkLists == SeqsUpTo(Payloads, MaxChunks)

CallRestoreWith ==
  /\ pc = "start"
  /\ restore_arg = << >>
  /\ \E cs \in ChunkLists, created \in BOOLEAN :
        \E written \in WriteCounts(cs) : CallRestoreFile(cs, created, written)
  /\ UNCHANGED << senderVars, displayVars >>

LeaveLoopWith ==
  /\ pc = "start"
  /\ restore_arg = << >>
  /\ pc' = "finalizing"
  /\ received_chunks' \in ChunkLists
  /\ UNCHANGED << loop_count, seen_hashes, elapsed, result, file_created,
                  output_file, hasher, submitted, resubmitted, first_decoded,
                  restore_arg >>
  /\ UNCHANGED << senderVars, displayVars >>

RestoreNext == CallRestoreWith \/ LeaveLoopWith \/ Reassemble

SpecRestore == Init /\ [][RestoreNext]_vars

(***************************************************************************)
(* SpecTransfer: one file is encoded, the slideshow shows its images in    *)
(* production order, each for SLIDE_INTERVAL_MS, again and again, and the  *)
(* receiver, started while some image is freshly on the screen, polls      *)
(* every CAPTURE_INTERVAL_MS and decodes the image shown at every capture. *)
(***************************************************************************)
\* get_qr_info: the number of entries of qr_output/, 0 when it cannot be read.
get_qr_info == IF dirs_created THEN Len(qr_output) ELSE 0

\* The slideshow page after dt more milliseconds: image i is followed by image
\* i + 1 after SLIDE_INTERVAL_MS, the last image by the first.
DisplayAfter(dt) ==
  LET age == slide_age + dt
      total == get_qr_info
  IN  [slide |-> ((slide - 1 + age \div SLIDE_INTERVAL_MS) % total) + 1,
       slide_age |-> age % SLIDE_INTERVAL_MS]

\* The source file shown: k chunks of zero bytes, then t bytes 252, 253, ...
BlockLen == (3 * ChunkSize) \div 4
ShownFile(k, t) ==
  [i \in 1..(k * BlockLen + t) |-> IF i <= k * BlockLen THEN 0 ELSE (251 + i - k * BlockLen) % 256]

TransferFiles == {ShownFile(k, t) : k \in 0..MaxRun, t \in {0, 2, BlockLen + 1}} \ {<< >>}

TransferEncode ==
  /\ client_result = "none"
  /\ \E f \in TransferFiles : generate_svg_files(f, TRUE)
  /\ UNCHANGED << receiverVars, displayVars >>

TransferStart ==
  /\ client_result = "ok"
  /\ Startup(TRUE)
  /\ slide' \in 1..get_qr_info
  /\ slide_age' = 0
  /\ UNCHANGED << senderVars, decoded_slides >>

\* An iteration that captures and decodes the image on the screen.
ShownDecoded ==
  /\ pc = "loop"
  /\ LET d == DisplayAfter(Dt(0))
     IN  /\ \E h \in Fingerprints : Tick("some", qr_output[d.slide], h, Dt(0))
         /\ slide' = d.slide
         /\ slide_age' = d.slide_age
         /\ decoded_slides' =
               IF \E i \in 1..Len(decoded_slides) : decoded_slides[i] = d.slide
               THEN decoded_slides
               ELSE Append(decoded_slides, d.slide)
  /\ UNCHANGED senderVars

TransferNext == TransferEncode \/ TransferStart \/ ShownDecoded \/ Reassemble

SpecTransfer == Init /\ [][TransferNext]_vars

(***************************************************************************)
(* SpecObserve: one file of three chunks is encoded and the receiver       *)
(* decodes its images in any order, any of them any number of times or     *)
(* never, with iterations that find no code in between.  Captures take     *)
(* LiveCapture intervals.                                                  *)
(***************************************************************************)
\* Files of three chunks: three full chunks (as 4500 bytes are with chunks of
\* 2000 characters) or a padded last chunk; the byte 251 throughout (equal
\* chunks), a ramp from 251, or a ramp of step 85 from 251.
ObserveFiles ==
  {[i \in 1..n |-> (a + d * (i - 1)) % 256] :
     n \in {3 * BlockLen - 2, 3 * BlockLen}, a \in {251}, d \in Steps}

ObserveEncode ==
  /\ client_result = "none"
  /\ \E f \in ObserveFiles : generate_svg_files(f, TRUE)
  /\ UNCHANGED << receiverVars, displayVars >>

ObserveStart ==
  /\ client_result = "ok"
  /\ Startup(TRUE)
  /\ UNCHANGED << senderVars, displayVars >>

\* An iteration that captures and decodes image i of the output directory.
Observed ==
  /\ pc = "loop"
  /\ \E i \in 1..Len(qr_output), h \in Fingerprints :
        /\ Tick("some", qr_output[i], h, Dt(LiveCapture))
        /\ decoded_slides' =
              IF \E k \in 1..Len(decoded_slides) : decoded_slides[k] = i
              THEN decoded_slides
              ELSE Append(decoded_slides, i)
  /\ UNCHANGED << senderVars, slide, slide_age >>

\* The code after the loop; write_all fails at once or gets every byte out.
ObserveReassemble ==
  /\ LET all == Cardinality(WriteCounts(received_chunks)) - 1
     IN  \E created \in BOOLEAN, written \in {0, all} : Finalize(created, written)
  /\ UNCHANGED << senderVars, displayVars >>

ObserveNext ==
  ObserveEncode \/ ObserveStart \/ Observed \/ LiveNoSymbol \/ ObserveReassemble

SpecObserve == Init /\ [][ObserveNext]_vars

(***************************************************************************)
(* SpecRuns: the sender is run again and again, each run on a file of its  *)
(* own, all runs writing into the same output directory.                   *)
(***************************************************************************)
EncodeRun ==
  /\ \E f \in TransferFiles \cup {<< >>}, readable \in BOOLEAN :
        generate_svg_files(f, readable)
  /\ UNCHANGED << receiverVars, displayVars >>

RunsNext == EncodeRun

SpecRuns == Init /\ [][RunsNext]_vars

(***************************************************************************)
(* Claims.                                                                 *)
(***************************************************************************)
Last(q) == q[Len(q)]

\* C1: round trip.  When restore_file is applied to the chunks the encoder
\* made of a non-empty file, in production order, the base64 decoding never
\* fails, and the file it writes holds exactly the bytes of the source file.
C1_RoundTrip ==
  (client_result = "ok" /\ restore_arg = << chunks >>) =>
     /\ Len(file) >= 1
     /\ result \in {"ok", "err_create", "err_write"}
     /\ result = "ok" => (file_created /\ output_file = file)

\* A file of several chunks, the last one short and padded, has come back.
C1_Witness ==
  /\ client_result = "ok"
  /\ restore_arg = << chunks >>
  /\ result = "ok"
  /\ output_file = file
  /\ Len(chunks) >= 2
  /\ Len(Last(chunks)) < ChunkSize
  /\ Last(Last(chunks)) = PAD

\* C3: chunk count and size.  A base64 text of length L >= 1 is split into
\* exactly ceil(L / chunk size) chunks; every chunk but the last has exactly
\* the chunk size, the last has between 1 and the chunk size characters.
C3_ChunkCountAndSize ==
  client_result = "ok" =>
     LET L == Len(to_base64(file))
         n == Len(chunks)
     IN  /\ L >= 1
         /\ n * ChunkSize >= L
         /\ (n - 1) * ChunkSize < L
         /\ \A i \in 1..(n - 1) : Len(chunks[i]) = ChunkSize
         /\ Len(chunks[n]) >= 1
         /\ Len(chunks[n]) <= ChunkSize
         /\ Len(chunks[n]) = L - (n - 1) * ChunkSize

\* Three chunks or more, the last one shorter than the others.
C3_Witness ==
  /\ client_result = "ok"
  /\ Len(chunks) >= 3
  /\ Len(Last(chunks)) < ChunkSize
  /\ Len(chunks[1]) = ChunkSize

\* C4: idempotent dedup.  However often and in whatever order payloads are
\* delivered, received_chunks never holds the same payload string twice.
C4_NoPayloadTwice ==
  \A i, j \in 1..Len(received_chunks) :
     i # j => received_chunks[i] # received_chunks[j]

\* Two payloads were accepted and one of them was delivered again.
C4_Witness ==
  /\ Len(received_chunks) >= 2
  /\ \E i \in 1..Len(received_chunks) : received_chunks[i] \in resubmitted

\* C5 as stated: the size of seen_hashes equals the number of distinct payload
\* strings ever submitted (different payloads are never merged).
C5_SeenCountsPayloads == Cardinality(seen_hashes) = Cardinality(submitted)

\* C5 amended: seen_hashes is the set of fingerprints of the payloads ever
\* submitted, so its size is the number of distinct fingerprints among them;
\* a submitted payload is missing from received_chunks only if a payload with
\* the same fingerprint is in it.
C5_SeenCountsFingerprints ==
  /\ submitted \subseteq DOMAIN hasher
  /\ seen_hashes = {hasher[p] : p \in submitted}
  /\ \A p \in submitted :
        \E i \in 1..Len(received_chunks) : hasher[received_chunks[i]] = hasher[p]
  /\ Len(received_chunks) = Cardinality(seen_hashes)

\* Two different payloads with one fingerprint were submitted and merged.
C5_Witness ==
  /\ Cardinality(submitted) = 2
  /\ Cardinality(seen_hashes) = 1
  /\ Len(received_chunks) = 1

\* C6: completion timing.  A tick leaves the loop exactly when chunks have
\* been accepted and its check reads an elapsed time above IDLE_TIMEOUT: not
\* at or below it, and at once when above it; after that the loop is never
\* entered again and no tick changes the receiver's state.
C6_CompletionTiming ==
  [][ /\ (pc = "loop" /\ pc' = "finalizing") =>
           (received_chunks' # << >> /\ elapsed' > IDLE_TIMEOUT_SECONDS * 1000)
      /\ (pc = "loop" /\ pc' = "loop") =>
           (received_chunks' = << >> \/ elapsed' <= IDLE_TIMEOUT_SECONDS * 1000)
      /\ pc = "loop" => pc' \in {"loop", "finalizing"}
      /\ pc \in {"finalizing", "done"} =>
           /\ pc' = "done"
           /\ UNCHANGED << received_chunks, seen_hashes, elapsed >>
    ]_vars

\* The loop has just been left, on the first check above the timeout.
C6_Witness ==
  /\ pc = "finalizing"
  /\ received_chunks # << >>
  /\ elapsed = IDLE_TIMEOUT_SECONDS * 1000 + CAPTURE_INTERVAL_MS

\* C10: invalid base64 is fatal and leaves no output.  When the joined and
\* trimmed chunks are no valid base64, the run ends with the decode error and
\* no output file has been created; the decode error is reported in no other
\* case.
C10_InvalidBase64NoOutput ==
  /\ (pc = "done" /\ received_chunks # << >>
        /\ ~decode_ok(trim(join(received_chunks)))) =>
       (result = "err_base64" /\ ~file_created /\ output_file = << >>)
  /\ result = "err_base64" =>
       /\ pc = "done"
       /\ ~file_created
       /\ ~decode_ok(trim(join(received_chunks)))

\* "/w==" then "AAAA" were accepted and the run has ended with the decode error.
C10_Witness ==
  /\ pc = "done"
  /\ result = "err_base64"
  /\ Len(received_chunks) >= 2
  /\ ~file_created

\* C7 as stated: every fair run of the receiver eventually ends, with a
\* written output file or a reported error, whatever the ticks decode.
C7_AlwaysEnds == <>(pc = "done")

\* C7 amended: every fair run in which a chunk is accepted, or in which no
\* screen is found, eventually ends, with a written output file or a
\* reported error; a run that accepts no chunk stays in the loop.
C7_EndsOnceDataArrived ==
  /\ (received_chunks # << >>) ~> (pc = "done")
  /\ [](pc = "done" =>
          \/ result = "ok" /\ file_created
          \/ result \in {"err_screen", "err_base64", "err_create", "err_write"})
  /\ []((pc # "done" /\ received_chunks = << >>) => pc \in {"start", "loop"})

\* A run has ended with a written file after accepting chunks.
C7_Witness ==
  /\ pc = "done"
  /\ result = "ok"
  /\ file_created
  /\ received_chunks # << >>

\* C9 as stated: restore_file called with zero chunks returns an error and
\* writes no output file.
C9_RestoreFileRejectsEmpty ==
  restore_arg = << << >> >> => (result # "ok" /\ ~file_created)

\* C9 amended: the empty sequence is rejected by main_with_error, not by
\* restore_file.  With zero chunks collected the code after the loop reports
\* the no-data error without calling restore_file and writes no file;
\* restore_file itself, called with zero chunks, decodes the empty text and,
\* when the file can be created, succeeds with an empty output file.
C9_EmptyRejectedByMain ==
  /\ (pc = "done" /\ received_chunks = << >>) =>
       (result = "err_no_data" /\ ~file_created /\ restore_arg = << >>)
  /\ restore_arg = << << >> >> =>
       /\ result \in {"ok", "err_create"}
       /\ result = "ok" <=> file_created
       /\ output_file = << >>

\* The code after the loop has run with zero chunks.
C9_Witness ==
  /\ pc = "done"
  /\ received_chunks = << >>
  /\ result = "err_no_data"
  /\ ~file_created

\* No two different strings hashed so far share a fingerprint.
NoCollision ==
  \A p, q \in DOMAIN hasher : p # q => hasher[p] # hasher[q]

\* The images were first decoded in production order, all of them.
DecodedInOrder ==
  /\ Len(decoded_slides) = Len(chunks)
  /\ \A i \in 1..Len(decoded_slides) : decoded_slides[i] = i

\* C2 as stated: when the receiver has decoded every chunk of the file in
\* production order and then timed out, the decoding does not fail and the
\* file it writes is byte-identical to the original, whatever the content.
\* (Stated for the runs in which no two different payloads share a
\* fingerprint.)
C2_InOrderTransferIsExact ==
  (pc = "done" /\ client_result = "ok" /\ DecodedInOrder /\ NoCollision) =>
     /\ result # "err_base64"
     /\ result = "ok" => output_file = file

\* C8 as stated: with the images shown in production order, one per slide
\* interval, and every shown image decoded, the receiver does not leave the
\* loop before it has decoded every image of the file.  (Stated for the runs
\* in which no two different payloads share a fingerprint.)
C8_NoPrematureCompletion ==
  (pc \in {"finalizing", "done"} /\ client_result = "ok" /\ NoCollision) =>
     Len(decoded_slides) = Len(chunks)

\* last_data_time is not set anew by the step: the elapsed time read at the
\* next check has grown (or is beyond what the model tells apart).
ClockKept ==
  /\ elapsed' >= elapsed
  /\ elapsed' > elapsed \/ elapsed = ElapsedMax

\* What capture_and_detect_qr returns when a step of it fails or no code is
\* found: every result but Ok(Some(data)).
FailedCaptures ==
  {capture_and_detect_qr(captured, converted, grids, decoded) :
     captured \in BOOLEAN, converted \in BOOLEAN, grids \in 0..1, decoded \in BOOLEAN}
  \ {"some"}

\* C11: no tick failure is fatal.  An iteration whose capture or conversion
\* fails, whose code does not decode, or which finds no code, changes neither
\* seen_hashes nor received_chunks nor the time the last chunk arrived (the
\* elapsed time goes on growing); it goes on to the
\* timeout check, which alone decides whether the loop is left, and it
\* reports no error.
C11_TickFailureNotFatal ==
  [][ pc = "loop" =>
        \/ /\ UNCHANGED << seen_hashes, received_chunks >>
           /\ ClockKept
           /\ pc' \in {"loop", "finalizing"}
           /\ pc' = "finalizing" <=> timed_out(received_chunks, elapsed')
           /\ result' = "none"
        \/ \A r \in FailedCaptures, c \in 0..MaxCapture : ~Tick(r, << >>, 0, Dt(c))
    ]_vars

\* One chunk was accepted and every iteration since, two or more, has failed
\* or found no code; the loop goes on.
C11_Witness ==
  /\ pc = "loop"
  /\ Len(received_chunks) = 1
  /\ Cardinality(submitted) = 1
  /\ resubmitted = {}
  /\ elapsed >= 2 * CAPTURE_INTERVAL_MS

\* C12: out-of-order observation is accepted silently.  When the chunks of a
\* file of three chunks were first decoded in the order [1,0,2] and the run
\* has ended, the joined text was valid base64, no decode error is reported,
\* and a run that reports success has written a file whose bytes differ from
\* the original.
C12_OutOfOrderAccepted ==
  (pc = "done" /\ Len(chunks) = 3 /\ decoded_slides = << 2, 1, 3 >>) =>
     /\ decode_ok(trim(join(received_chunks)))
     /\ result \in {"ok", "err_create", "err_write"}
     /\ result = "ok" => (file_created /\ output_file # file)

\* Three full, different chunks were accepted in the order [1,0,2] and a file
\* as long as the original, with other bytes, was written with success.
C12_Witness ==
  /\ pc = "done"
  /\ decoded_slides = << 2, 1, 3 >>
  /\ received_chunks = << chunks[2], chunks[1], chunks[3] >>
  /\ Len(file) = 3 * BlockLen
  /\ result = "ok"
  /\ file_created
  /\ Len(output_file) = Len(file)
  /\ output_file # file

\* C13: empty or unreadable input is rejected before any output.  An encode
\* run on a file that is empty or cannot be opened or read ends with an
\* error, and it produces no chunk, no QR image and no output directory; a
\* run on any other file succeeds.
C13_EmptyOrUnreadableRejected ==
  [][ client_result = "none" =>
        \A f \in CodecFiles, readable \in BOOLEAN :
           generate_svg_files(f, readable) =>
              IF ~readable \/ Len(f) = 0
              THEN /\ client_result' = (IF readable THEN "err_empty" ELSE "err_read")
                   /\ chunks' = << >>
                   /\ qr_output' = << >>
                   /\ ~dirs_created'
              ELSE client_result' = "ok" /\ chunks' # << >>
    ]_vars

\* An encode run has ended with the error for an empty file, nothing written.
C13_Witness ==
  /\ client_result = "err_empty"
  /\ chunks = << >>
  /\ qr_output = << >>
  /\ ~dirs_created

\* C14: finalizing is never entered with zero chunks.  Whenever the loop has
\* been left, received_chunks is non-empty, so the no-data error after the
\* loop is never reported; while no chunk has been accepted the receiver
\* stays in the loop, however long it has been running.
C14_NeverFinalizeEmpty ==
  /\ pc = "finalizing" => received_chunks # << >>
  /\ (pc = "done" /\ result # "err_screen") => received_chunks # << >>
  /\ result # "err_no_data"
  /\ (received_chunks = << >> /\ result = "none") => pc \in {"start", "loop"}

\* The receiver has run for longer than the idle timeout without a chunk and
\* is still in the loop.
C14_Witness ==
  /\ pc = "loop"
  /\ received_chunks = << >>
  /\ elapsed > IDLE_TIMEOUT_SECONDS * 1000

\* C15: a duplicate observation changes nothing.  An iteration that decodes a
\* payload whose fingerprint is in seen_hashes changes neither seen_hashes nor
\* received_chunks nor the time the last chunk arrived (the elapsed time goes
\* on growing), and the timeout check that follows fires
\* as it would without the sighting.
C15_DuplicateChangesNothing ==
  [][ pc = "loop" =>
        \/ /\ UNCHANGED << seen_hashes, received_chunks >>
           /\ ClockKept
           /\ pc' = "finalizing" <=> timed_out(received_chunks, elapsed')
        \/ \A data \in Payloads, h \in seen_hashes, c \in 0..MaxCapture :
              ~Tick("some", data, h, Dt(c))
    ]_vars

\* The one accepted payload was decoded again, and the loop was left on the
\* first check above the timeout.
C15_Witness ==
  /\ pc = "finalizing"
  /\ Len(received_chunks) = 1
  /\ resubmitted = {received_chunks[1]}
  /\ submitted = resubmitted
  /\ elapsed = IDLE_TIMEOUT_SECONDS * 1000 + CAPTURE_INTERVAL_MS

\* The place of x in the sequence q.
Pos(q, x) == CHOOSE i \in 1..Len(q) : q[i] = x

\* C16: received_chunks is in first-observation order.  Every accepted payload
\* was decoded, and of two accepted payloads the one decoded first comes
\* first in received_chunks; a step appends at most one payload at the end
\* and never reorders or removes what is there.
C16_FirstObservationOrder ==
  /\ [](/\ \A i \in 1..Len(received_chunks) :
              \E k \in 1..Len(first_decoded) : first_decoded[k] = received_chunks[i]
        /\ \A i, j \in 1..Len(received_chunks) :
              i < j <=> Pos(first_decoded, received_chunks[i])
                          < Pos(first_decoded, received_chunks[j]))
  /\ [][ /\ Len(received_chunks') \in {Len(received_chunks), Len(received_chunks) + 1}
         /\ SubSeq(received_chunks', 1, Len(received_chunks)) = received_chunks
       ]_vars

\* Three payloads were decoded, the second was dropped for its fingerprint,
\* the first and the third were accepted in this order, and one was seen again.
C16_Witness ==
  /\ Len(first_decoded) = 3
  /\ received_chunks = << first_decoded[1], first_decoded[3] >>
  /\ resubmitted # {}

\* C17: seen_hashes and received_chunks grow in lockstep and never shrink.
\* A step leaves both as they are, or it puts one fingerprint that was not in
\* seen_hashes into it, appends one payload, the one with this fingerprint, to
\* received_chunks and restarts the idle time; so seen_hashes has as many
\* elements as received_chunks and is the set of the fingerprints of its
\* payloads.
C17_Lockstep ==
  /\ [](/\ Cardinality(seen_hashes) = Len(received_chunks)
        /\ \A i \in 1..Len(received_chunks) : received_chunks[i] \in DOMAIN hasher
        /\ seen_hashes = {hasher[received_chunks[i]] : i \in 1..Len(received_chunks)})
  /\ [][ \/ UNCHANGED << seen_hashes, received_chunks >>
         \/ /\ Len(received_chunks') = Len(received_chunks) + 1
            /\ SubSeq(received_chunks', 1, Len(received_chunks)) = received_chunks
            /\ hasher'[Last(received_chunks')] \notin seen_hashes
            /\ seen_hashes' = seen_hashes \cup {hasher'[Last(received_chunks')]}
            /\ elapsed' = 0
       ]_vars

\* A second payload has just been accepted, after another one had been
\* dropped for its fingerprint.
C17_Witness ==
  /\ pc = "loop"
  /\ Len(received_chunks) = 2
  /\ Cardinality(seen_hashes) = 2
  /\ Cardinality(submitted) = 3
  /\ Last(first_decoded) = Last(received_chunks)
  /\ elapsed = 0

\* C18: eventual completion once data has arrived.  With the loop scheduled
\* fairly and finitely many different payloads on the screen, once a chunk
\* has been accepted the receiver eventually leaves the loop and calls
\* restore_file with the chunks accepted, however often payloads already seen
\* are decoded again.
C18_EventuallyReassembles ==
  (received_chunks # << >>) ~>
     (pc = "done" /\ restore_arg = << received_chunks >> /\ result # "none")

\* restore_file was called after a payload already seen had been decoded
\* again.
C18_Witness ==
  /\ pc = "done"
  /\ restore_arg = << received_chunks >>
  /\ received_chunks # << >>
  /\ resubmitted # {}

\* C19: no completeness check.  When an image of the file is never decoded
\* while others are, the receiver still leaves the loop on the first check
\* that reads an idle time above the timeout, and it calls restore_file on
\* the chunks it has; what it reports and writes is what restore_file makes of
\* these chunks alone, with no trace of the missing one.
C19_NoCompletenessCheck ==
  /\ []((pc = "done" /\ decoded_slides # << >> /\ Len(decoded_slides) < Len(chunks)) =>
          /\ restore_arg = << received_chunks >>
          /\ \E created \in BOOLEAN, written \in 0..Len(output_file) :
                restore_file(received_chunks, created, written)
                   = [result |-> result, file_created |-> file_created,
                      output_file |-> output_file])
  /\ [][ (pc = "loop" /\ Len(decoded_slides') < Len(chunks)
            /\ timed_out(received_chunks', elapsed')) => pc' = "finalizing"
       ]_vars

\* The second of three different chunks was never decoded; the run has ended
\* with success and a file that is not the original.
C19_Witness ==
  /\ pc = "done"
  /\ Len(chunks) = 3
  /\ decoded_slides = << 1, 3 >>
  /\ received_chunks = << chunks[1], chunks[3] >>
  /\ result = "ok"
  /\ file_created
  /\ output_file # file

\* C20 as stated: after any sequence of encode runs, the total of /api/info
\* is the number of images of the most recent run, the chunk count of its
\* file; no image of an earlier run is counted.
C20_TotalIsChunkCount ==
  client_result = "ok" => get_qr_info = Len(chunks)

=============================================================================
